---------------------------- MODULE Spec2Model ----------------------------
(***************************************************************************)
(* Model of the npm ingestion pipeline of SoftwareThatMatters (package     *)
(* ingest): the per-package fan-out path (ingestInternal, versionPrinter,  *)
(* printSinglePackage, process, writeOneToFile), the streaming path        *)
(* (StreamDecode) and the dependency extraction both paths perform.        *)
(*                                                                         *)
(* Go slices are TLA+ sequences; a Go index i reads element i+1 (At).      *)
(* A Go string is abstracted by an identity and its length (Str), a Go map *)
(* by a function on its key set whose iteration order is any permutation   *)
(* of the keys.  A panic or log.Fatal ends the process: aborted.           *)
(***************************************************************************)
EXTENDS Integers, Sequences, FiniteSets, Bags, TLC

VARIABLES
    \* ---- ingestInternal / versionPrinter (fan-out path)
    inputDefect, \* what is wrong with the bulk document: "none", "notArray",
                 \* "missingName", "missingNumber", "missingPublishedAt"
    inputValid,  \* whether json.Unmarshal(inputBytes, &arr) succeeds
    arr,         \* the decoded []PackageInfo
    pc,          \* position of ingestInternal
    aborted,     \* the process died (panic / log.Fatal)
    vi,          \* versionPrinter: loop index of "for i, p := range *input"
    vwg,         \* versionPrinter: its sync.WaitGroup counter
    vpc,         \* per printSinglePackage goroutine: "idle", "run", "done"
    vidx,        \* per printSinglePackage goroutine: index of the next version
    csvRows,     \* rows written to the shared ccsv writer (a bag: the order in which
                 \* the goroutines' rows land is not kept)
    csvClosed,   \* the shared ccsv writer was closed
    versionFile, \* rows of the version-summary file on disk (a bag)
    li,          \* ingestInternal: loop index i of the launch loop
    wg,          \* ingestInternal: its sync.WaitGroup counter
    upc,         \* per process unit: "idle", "open", "versions", "ret", "done"
    uInput,      \* per process unit: its input slice
    uPath,       \* per process unit: its outPath
    packageIdx,  \* per process unit: index of the outer loop
    verIdx,      \* per process unit: index of the inner loop
    w,           \* per process unit: rows buffered in its csv.Writer (kept until a
                 \* Flush; the writer's own flush of a full buffer is not modelled)
    file,        \* rows on disk, per output path
    trace,       \* per process unit: the fetches and row writes it made, in order
    last,        \* status and decodability of the latest response any unit received
    \* ---- dependency extraction applied to one pair of maps
    exDeps,      \* the decoded dependencies map
    exDevDeps,   \* the decoded devDependencies map
    exPath,      \* whose extraction ran: "none", "stream" (StreamDecode), "process"
    exOut,       \* allDependencies
    exPanicked,  \* the extraction panicked
    \* ---- StreamDecode (streaming path)
    sShape,      \* the input file: "array", "unreadable", "unterminated"
    sDoc,        \* the elements of the input array
    sRun,        \* which run of StreamDecode on this input this is
    sPc,         \* position of StreamDecode: "open", "loop", "done", "fatal"
    sIdx,        \* elements decoded so far
    sBuf,        \* rows buffered in the csv.Writer
    sOut,        \* rows in the output file
    sFirst,      \* the output file the previous run left
    cText,       \* the JSON timestamp text handed to CreatedTime.UnmarshalJSON
    cStage,      \* "start", "decoded", "encoded", "done" or "error"
    cT1,         \* the CreatedTime the first decoding stored
    cEnc,        \* its text in the time.RFC3339Nano layout
    cT2,         \* the CreatedTime decoded from that text
    mValue,      \* the CreatedTime or Version handed to MarshalJSON
    mPc,         \* "idle", "MarshalJSON", "json.Marshal" or "overflow"
    mDepth       \* the MarshalJSON frames on the goroutine's stack

fanVars == <<inputDefect, inputValid, arr, pc, aborted, vi, vwg, vpc, vidx, csvRows, csvClosed,
             versionFile, li, wg, upc, uInput, uPath, packageIdx, verIdx, w, file,
             trace, last>>

vpVars == <<vi, vwg, vpc, vidx, csvRows, csvClosed, versionFile>>
unitVars == <<upc, uInput, uPath, packageIdx, verIdx, w, file, trace, last>>
exVars == <<exDeps, exDevDeps, exPath, exOut, exPanicked>>
stVars == <<sShape, sDoc, sRun, sPc, sIdx, sBuf, sOut, sFirst>>
cdVars == <<cText, cStage, cT1, cEnc, cT2>>
mjVars == <<mValue, mPc, mDepth>>

\* what no step of the fan-out path changes: its input, and the other entry points
inVars == <<inputDefect, inputValid, arr, exVars, stVars, cdVars, mjVars>>
\* what no extraction step changes: its input maps, and the other entry points
exInVars == <<exDeps, exDevDeps, fanVars, stVars, cdVars, mjVars>>
\* what no step of StreamDecode changes: its input file, and the other entry points
stInVars == <<sShape, sDoc, fanVars, exVars, cdVars, mjVars>>
\* what the timestamp codec never changes
cdInVars == <<cText, fanVars, exVars, stVars, mjVars>>
\* what the JSON encoders never change
mjInVars == <<mValue, fanVars, exVars, stVars, cdVars>>

vars == <<fanVars, exVars, stVars, cdVars, mjVars>>

--------------------------------------------------------------------------
(* Bounds of the model *)

MaxPackages == 2
MaxVersions == 2
MaxDeps == 2
MaxEntries == 2

--------------------------------------------------------------------------
(* Go helpers *)

\* s[i] of a Go slice
At(s, i) == s[i + 1]

\* s[lo:hi] of a Go slice
Slice(s, lo, hi) == SubSeq(s, lo + 1, hi)

\* a Go string: identity and len()
Str(id, n) == [id |-> id, len |-> n]

\* all iteration orders of a Go map ("for k, v := range m")
MapOrders(m) ==
    {o \in [1..Cardinality(DOMAIN m) -> DOMAIN m] :
        \A a, b \in DOMAIN o : a # b => o[a] # o[b]}

EmptyMap == [k \in {} |-> 0]

--------------------------------------------------------------------------
(* Record types and the timestamp layout *)

\* a time.Time: seconds and nanoseconds; the zero Time is [sec |-> 0, nsec |-> 0]
Time(sec, nsec) == [sec |-> sec, nsec |-> nsec]

\* the 9 digits of a nanosecond count, most significant first
RECURSIVE Digits(_, _)
Digits(n, width) ==
    IF width = 0 THEN <<>> ELSE Append(Digits(n \div 10, width - 1), n % 10)

\* drop the trailing zeros of a digit sequence
RECURSIVE TrimZeros(_)
TrimZeros(ds) ==
    IF ds = <<>> THEN <<>>
    ELSE IF ds[Len(ds)] = 0 THEN TrimZeros(SubSeq(ds, 1, Len(ds) - 1))
    ELSE ds

\* the time.RFC3339 layout: whole seconds, no fraction
FormatRFC3339(t) == [sec |-> t.sec, frac |-> <<>>]

\* t.Format(time.RFC3339Nano): the seconds and the fraction without trailing zeros
FormatRFC3339Nano(t) == [sec |-> t.sec, frac |-> TrimZeros(Digits(t.nsec, 9))]

\* type Version
Version(number, publishedAt) == [Number |-> number, PublishedAt |-> publishedAt]

\* type PackageInfo
PackageInfo(name, versions) == [Name |-> name, Versions |-> versions]

\* type Dependency
Dependency(name, requiredVersion) == [Name |-> name, RequiredVersion |-> requiredVersion]

\* type VersionDependencies
VersionDependencies(name, version, created, deps) ==
    [Name |-> name, Version |-> version, VersionCreated |-> created, Dependencies |-> deps]

\* Dependency.String(): "name:requiredVersion"
DependencyString(d) == <<d.Name, ":", d.RequiredVersion>>

\* writeOneToFile: the CSV row of one VersionDependencies
WriteOneRow(input) ==
    <<input.Name, input.Version, FormatRFC3339Nano(input.VersionCreated),
      [k \in 1..Len(input.Dependencies) |-> DependencyString(input.Dependencies[k])]>>

--------------------------------------------------------------------------
(* Dependency extraction *)

\* const limit int = 10000 of tooLong
limit == 10000

\* tooLong(a, b)
tooLong(a, b) == a.len > limit \/ b.len > limit

\* a value of a map[string]interface{}: a JSON string, or any other JSON value
StringValue(s) == [kind |-> "string", s |-> s]
OtherValue == [kind |-> "other"]

\* v.(string) panics
AssertionPanics(v) == v.kind # "string"

\* process: some v.(string) of "for k, v := range deps/devDeps" panics
ExtractPanics(deps, devDeps) ==
    \/ \E k \in DOMAIN deps : AssertionPanics(deps[k])
    \/ \E k \in DOMAIN devDeps : AssertionPanics(devDeps[k])

\* process: allDependencies, the maps being ranged over in the orders o1 and o2
ProcessExtract(deps, devDeps, o1, o2) ==
    [k \in 1..Len(o1) |-> Dependency(o1[k], deps[o1[k]].s)]
        \o [k \in 1..Len(o2) |-> Dependency(o2[k], devDeps[o2[k]].s)]

\* StreamDecode: the entries of one map that pass the size guard, in the order o
RECURSIVE StreamAppend(_, _)
StreamAppend(m, o) ==
    IF o = <<>> THEN <<>>
    ELSE IF tooLong(Head(o), m[Head(o)]) THEN StreamAppend(m, Tail(o))
    ELSE <<Dependency(Head(o), m[Head(o)])>> \o StreamAppend(m, Tail(o))

\* StreamDecode: allDependencies, the maps being ranged over in the orders o1 and o2
StreamExtract(deps, devDeps, o1, o2) == StreamAppend(deps, o1) \o StreamAppend(devDeps, o2)

--------------------------------------------------------------------------
(* Inputs of the fan-out path *)

\* the goroutine indices of both launch loops
Units == 0..(MaxPackages - 1)

\* the publish timestamp of the k-th version of the input
PublishedAtOf(k) == Time(1000 + k, 500000000)

\* the decoded documents: n packages, package i with its own number of versions
InputArrays ==
    UNION {
        {[i \in 1..n |-> PackageInfo(i - 1,
              [k \in 1..cnt[i] |-> Version(k, PublishedAtOf(k))])] :
            cnt \in [1..n -> 0..MaxVersions]} :
        n \in 0..MaxPackages}

\* outPathTemplate of Ingest / IngestFile
OutPathTemplate == "data/out/result%d.csv"

\* a template without a placeholder: every index gives the same path
SprintfNoVerb(template, i) == <<template, 0>>

\* fmt.Sprintf(outPathTemplate, i): the template with its placeholder filled
Sprintf(template, i) == <<template, i>>

Paths == {Sprintf(OutPathTemplate, i) : i \in Units}

\* status codes the registry answers with
Statuses == {200, 404, 429}

NameA == Str("a", 1)
RangeA == Str("^1.0.0", 6)

\* dependency maps of a live response body
LiveMaps == {NameA :> StringValue(RangeA), NameA :> OtherValue}

\* response bodies: one json.Unmarshal rejects, or a JSON object
Bodies ==
    {[kind |-> "undecodable"]} \cup
    {[kind |-> "object", Dependencies |-> d, DevDependencies |-> EmptyMap] : d \in LiveMaps}

\* json.Unmarshal(*rawDataAddr, &parsed) returns nil
Decodes(body) == body.kind = "object"

\* what request(currentURL) returns
Responses == [StatusCode : Statuses, body : Bodies]

NoResponse == [StatusCode |-> 0, decoded |-> FALSE]

--------------------------------------------------------------------------
(* Initial state of the fan-out path *)

FanStart(valid, input) ==
    /\ inputValid = valid
    /\ arr = input
    /\ pc = "unmarshal"
    /\ aborted = FALSE
    /\ vi = 0
    /\ vwg = 0
    /\ vpc = [i \in Units |-> "idle"]
    /\ vidx = [i \in Units |-> 0]
    /\ csvRows = EmptyBag
    /\ csvClosed = FALSE
    /\ versionFile = EmptyBag
    /\ li = 0
    /\ wg = 0
    /\ upc = [i \in Units |-> "idle"]
    /\ uInput = [i \in Units |-> <<>>]
    /\ uPath = [i \in Units |-> <<>>]
    /\ packageIdx = [i \in Units |-> 0]
    /\ verIdx = [i \in Units |-> 0]
    /\ w = [i \in Units |-> <<>>]
    /\ file = [q \in Paths |-> <<>>]
    /\ trace = [i \in Units |-> <<>>]
    /\ last = NoResponse

InitFan ==
    \E valid \in BOOLEAN, input \in InputArrays :
        /\ FanStart(valid, input)
        /\ inputDefect = IF valid THEN "none" ELSE "notArray"

\* the fan-out path not run
FanIdle == FanStart(TRUE, <<>>) /\ inputDefect = "none"

\* the zero value of a string field json.Unmarshal leaves unset
EmptyName == -1

\* json.Unmarshal(inputBytes, &arr) returns nil: the top level is an array, and
\* Version.UnmarshalJSON found "published_at" and "number" in every version (its
\* dat["published_at"].(string) and dat["number"].(string) panic on a missing
\* key); a missing "name" is no error to json.Unmarshal
DocumentDecodes(defect) == defect \in {"none", "missingName"}

\* what json.Unmarshal decodes: a package whose "name" is missing keeps Name unset
DecodedArray(defect, input, j) ==
    IF defect = "missingName"
    THEN [input EXCEPT ![j] = PackageInfo(EmptyName, input[j].Versions)]
    ELSE input

\* the malformed bulk documents: one defect, in element j of the array
InitMalformed ==
    \E defect \in {"notArray", "missingName", "missingNumber", "missingPublishedAt"},
       input \in InputArrays :
        /\ Len(input) >= 1
        /\ \E j \in DOMAIN input :
            /\ (defect \in {"missingNumber", "missingPublishedAt"}) => input[j].Versions # <<>>
            /\ FanStart(DocumentDecodes(defect), DecodedArray(defect, input, j))
        /\ inputDefect = defect

--------------------------------------------------------------------------
(* ingestInternal and versionPrinter *)

\* ingestInternal: json.Unmarshal(inputBytes, &arr) fails, panic(err)
UnmarshalPanics ==
    /\ ~aborted /\ pc = "unmarshal"
    /\ ~inputValid
    /\ aborted' = TRUE
    /\ UNCHANGED <<inVars, pc, li, wg, vpVars, unitVars>>

\* ingestInternal: json.Unmarshal succeeds, versionPrinter(&arr, versionPath) is called
UnmarshalOk ==
    /\ ~aborted /\ pc = "unmarshal"
    /\ inputValid
    /\ pc' = "versionPrinter"
    /\ UNCHANGED <<inVars, aborted, li, wg, vpVars, unitVars>>

\* versionPrinter: ccsv.NewCsvWriter(versionPath) fails, panic
NewCsvWriterPanics ==
    /\ ~aborted /\ pc = "versionPrinter"
    /\ aborted' = TRUE
    /\ UNCHANGED <<inVars, pc, li, wg, vpVars, unitVars>>

\* versionPrinter: ccsv.NewCsvWriter(versionPath) succeeds
NewCsvWriterOk ==
    /\ ~aborted /\ pc = "versionPrinter"
    /\ pc' = "vloop"
    /\ vi' = 0
    /\ UNCHANGED <<inVars, aborted, li, wg, vwg, vpc, vidx, csvRows, csvClosed,
                   versionFile, unitVars>>

\* a goroutine started without wg.Add(1)
VersionPrinterLaunchNoAdd ==
    /\ ~aborted /\ pc = "vloop"
    /\ vi < Len(arr)
    /\ vwg' = vwg
    /\ vpc' = [vpc EXCEPT ![vi] = "run"]
    /\ vi' = vi + 1
    /\ UNCHANGED <<inVars, pc, aborted, li, wg, vidx, csvRows, csvClosed, versionFile,
                   unitVars>>

\* versionPrinter: one iteration of "for i, p := range *input": wg.Add(1); go func(i, p)
VersionPrinterLaunch ==
    /\ ~aborted /\ pc = "vloop"
    /\ vi < Len(arr)
    /\ vwg' = vwg + 1
    /\ vpc' = [vpc EXCEPT ![vi] = "run"]
    /\ vi' = vi + 1
    /\ UNCHANGED <<inVars, pc, aborted, li, wg, vidx, csvRows, csvClosed, versionFile,
                   unitVars>>

\* a writer without the mutex: a row written while another goroutine is in its
\* loop can be lost
CsvWriteUnsynchronized(rows, row) ==
    IF csvClosed \/ Cardinality({j \in Units : vpc[j] = "run"}) > 1
    THEN rows
    ELSE rows (+) SetToBag({row})

\* ccsv.CsvWriter.Write(row): one append, serialized by the writer's mutex;
\* a Write after Close reaches no file
CsvWrite(rows, row) == IF csvClosed THEN rows ELSE rows (+) SetToBag({row})

\* the row printSinglePackage writes for one version
VersionRow(name, ver) == <<name, ver.Number, FormatRFC3339Nano(ver.PublishedAt)>>

\* printSinglePackage: one iteration of "for _, ver := range versions"
PrintSinglePackage(i) ==
    /\ ~aborted /\ vpc[i] = "run"
    /\ vidx[i] < Len(At(arr, i).Versions)
    /\ csvRows' = CsvWrite(csvRows, VersionRow(At(arr, i).Name,
                                               At(At(arr, i).Versions, vidx[i])))
    /\ vidx' = [vidx EXCEPT ![i] = @ + 1]
    /\ UNCHANGED <<inVars, pc, aborted, li, wg, vi, vwg, vpc, csvClosed, versionFile,
                   unitVars>>

\* the goroutine of versionPrinter ends: printSinglePackage returned, defer wg.Done()
PrintGoroutineDone(i) ==
    /\ ~aborted /\ vpc[i] = "run"
    /\ vidx[i] = Len(At(arr, i).Versions)
    /\ vpc' = [vpc EXCEPT ![i] = "done"]
    /\ vwg' = vwg - 1
    /\ UNCHANGED <<inVars, pc, aborted, li, wg, vi, vidx, csvRows, csvClosed,
                   versionFile, unitVars>>

\* versionPrinter without its deferred wg.Wait()
VersionPrinterWaitMissing == TRUE

\* versionPrinter: the deferred wg.Wait() returns
VersionPrinterWait == vwg = 0

\* versionPrinter returns: its loop is over, then defer wg.Wait(), then defer csv.Close()
VersionPrinterReturn ==
    /\ ~aborted /\ pc = "vloop"
    /\ vi = Len(arr)
    /\ VersionPrinterWait
    /\ csvClosed' = TRUE
    /\ versionFile' = csvRows
    /\ pc' = "launch"
    /\ li' = 0
    /\ UNCHANGED <<inVars, aborted, wg, vi, vwg, vpc, vidx, csvRows, unitVars>>

\* the slice arr[:i+1] instead of arr[i:i+1]
UnitInputFromStart(i) == Slice(arr, 0, i + 1)

\* ingestInternal: the slice arr[i:i+1] handed to unit i
UnitInput(i) == Slice(arr, i, i + 1)

\* ingestInternal: one iteration of the launch loop: wg.Add(1); go func(i)
IngestLaunch ==
    /\ ~aborted /\ pc = "launch"
    /\ li < Len(arr)
    /\ wg' = wg + 1
    /\ upc' = [upc EXCEPT ![li] = "open"]
    /\ uPath' = [uPath EXCEPT ![li] = Sprintf(OutPathTemplate, li)]
    /\ uInput' = [uInput EXCEPT ![li] = UnitInput(li)]
    /\ li' = li + 1
    /\ UNCHANGED <<inVars, pc, aborted, vpVars, packageIdx, verIdx, w, file, trace, last>>

\* ingestInternal without its wg.Wait()
IngestWaitMissing == TRUE

\* ingestInternal: wg.Wait() returns
IngestWait == wg = 0

\* ingestInternal returns: its launch loop is over and wg.Wait() returned
IngestReturn ==
    /\ ~aborted /\ pc = "launch"
    /\ li = Len(arr)
    /\ IngestWait
    /\ pc' = "done"
    /\ UNCHANGED <<inVars, aborted, li, wg, vpVars, unitVars>>

--------------------------------------------------------------------------
(* process: one unit of the fan-out path *)

\* "if verIdx%10 == 0": the period of the flush inside the version loop
FlushEvery == 10

\* the number of versions of a package long enough for the periodic flush of a
\* unit to come round
LongVersions == 13

\* one package with LongVersions versions, as decoded from the bulk document
InitLongPackage ==
    \E valid \in BOOLEAN :
        /\ FanStart(valid, <<PackageInfo(0, [k \in 1..LongVersions |-> Version(k, PublishedAtOf(k))])>>)
        /\ inputDefect = IF valid THEN "none" ELSE "notArray"

\* the package and the version the unit is at
CurPackage(i) == At(uInput[i], packageIdx[i])
\* the versions read from the last to the first
VersionAtReversed(versions, idx) == At(versions, Len(versions) - 1 - idx)

\* process: version := (*versionsAddr)[verIdx]
VersionAt(versions, idx) == At(versions, idx)
CurVersion(i) == VersionAt(CurPackage(i).Versions, verIdx[i])

InVersionLoop(i) ==
    /\ ~aborted /\ upc[i] = "versions"
    /\ packageIdx[i] < Len(uInput[i])
    /\ verIdx[i] < Len(CurPackage(i).Versions)

FetchEvent(i) == [op |-> "fetch", pkg |-> CurPackage(i).Name, ver |-> CurVersion(i).Number]
RowEvent(i) == [op |-> "row", pkg |-> CurPackage(i).Name, ver |-> CurVersion(i).Number]
Seen(resp) == [StatusCode |-> resp.StatusCode, decoded |-> Decodes(resp.body)]

\* process: os.OpenFile(outPath, O_CREATE|O_APPEND|O_WRONLY) fails, log.Fatal(err)
ProcessOpenFatal(i) ==
    /\ ~aborted /\ upc[i] = "open"
    /\ aborted' = TRUE
    /\ UNCHANGED <<inVars, pc, li, wg, vpVars, unitVars>>

\* process: the file is open, w := csv.NewWriter(file), the loops start
ProcessOpen(i) ==
    /\ ~aborted /\ upc[i] = "open"
    /\ upc' = [upc EXCEPT ![i] = "versions"]
    /\ packageIdx' = [packageIdx EXCEPT ![i] = 0]
    /\ verIdx' = [verIdx EXCEPT ![i] = 0]
    /\ w' = [w EXCEPT ![i] = <<>>]
    /\ UNCHANGED <<inVars, pc, aborted, li, wg, vpVars, uInput, uPath, file, trace, last>>

\* process: request(currentURL) panics (http.Get or ReadAll failed)
RequestPanics(i) ==
    /\ InVersionLoop(i)
    /\ trace' = [trace EXCEPT ![i] = Append(@, FetchEvent(i))]
    /\ last' = NoResponse
    /\ aborted' = TRUE
    /\ UNCHANGED <<inVars, pc, li, wg, vpVars, upc, uInput, uPath, packageIdx, verIdx,
                   w, file>>

\* process: the body does not decode and the status is 404: continue
VersionNotFound(i) ==
    /\ InVersionLoop(i)
    /\ \E resp \in Responses :
        /\ ~Decodes(resp.body)
        /\ resp.StatusCode = 404
        /\ last' = Seen(resp)
    /\ trace' = [trace EXCEPT ![i] = Append(@, FetchEvent(i))]
    /\ verIdx' = [verIdx EXCEPT ![i] = @ + 1]
    /\ UNCHANGED <<inVars, pc, aborted, li, wg, vpVars, upc, uInput, uPath, packageIdx,
                   w, file>>

\* process: the body does not decode and the status is not 404: panic(err)
DecodePanics(i) ==
    /\ InVersionLoop(i)
    /\ \E resp \in Responses :
        /\ ~Decodes(resp.body)
        /\ resp.StatusCode # 404
        /\ last' = Seen(resp)
    /\ trace' = [trace EXCEPT ![i] = Append(@, FetchEvent(i))]
    /\ aborted' = TRUE
    /\ UNCHANGED <<inVars, pc, li, wg, vpVars, upc, uInput, uPath, packageIdx, verIdx,
                   w, file>>

\* process: the body decodes, a range is no string: v.(string) panics
AssertionPanic(i) ==
    /\ InVersionLoop(i)
    /\ \E resp \in Responses :
        /\ Decodes(resp.body)
        /\ ExtractPanics(resp.body.Dependencies, resp.body.DevDependencies)
        /\ last' = Seen(resp)
    /\ trace' = [trace EXCEPT ![i] = Append(@, FetchEvent(i))]
    /\ aborted' = TRUE
    /\ UNCHANGED <<inVars, pc, li, wg, vpVars, upc, uInput, uPath, packageIdx, verIdx,
                   w, file>>

\* process: the body decodes (the status is not looked at): extract, writeOneToFile,
\* and w.Flush() if verIdx%10 == 0
VersionResolved(i) ==
    /\ InVersionLoop(i)
    /\ \E resp \in Responses :
        /\ Decodes(resp.body)
        /\ ~ExtractPanics(resp.body.Dependencies, resp.body.DevDependencies)
        /\ last' = Seen(resp)
        /\ \E o1 \in MapOrders(resp.body.Dependencies),
              o2 \in MapOrders(resp.body.DevDependencies) :
            LET allDependencies ==
                    ProcessExtract(resp.body.Dependencies, resp.body.DevDependencies,
                                   o1, o2)
                versionDeps ==
                    VersionDependencies(CurPackage(i).Name, CurVersion(i).Number,
                                        CurVersion(i).PublishedAt, allDependencies)
                buffered == Append(w[i], WriteOneRow(versionDeps))
            IN  IF verIdx[i] % FlushEvery = 0
                THEN /\ file' = [file EXCEPT ![uPath[i]] = @ \o buffered]
                     /\ w' = [w EXCEPT ![i] = <<>>]
                ELSE /\ w' = [w EXCEPT ![i] = buffered]
                     /\ file' = file
    /\ trace' = [trace EXCEPT ![i] = @ \o <<FetchEvent(i), RowEvent(i)>>]
    /\ verIdx' = [verIdx EXCEPT ![i] = @ + 1]
    /\ UNCHANGED <<inVars, pc, aborted, li, wg, vpVars, upc, uInput, uPath, packageIdx>>

\* process: one iteration of "for verIdx := range *versionsAddr"
ProcessVersion(i) ==
    \/ VersionResolved(i)
    \/ VersionNotFound(i)
    \/ AssertionPanic(i)
    \/ DecodePanics(i)
    \/ RequestPanics(i)

\* a unit that ends a package without flushing its writer
ProcessPackageEndNoFlush(i) ==
    /\ ~aborted /\ upc[i] = "versions"
    /\ packageIdx[i] < Len(uInput[i])
    /\ verIdx[i] = Len(CurPackage(i).Versions)
    /\ file' = file
    /\ w' = w
    /\ packageIdx' = [packageIdx EXCEPT ![i] = @ + 1]
    /\ verIdx' = [verIdx EXCEPT ![i] = 0]
    /\ UNCHANGED <<inVars, pc, aborted, li, wg, vpVars, upc, uInput, uPath, trace, last>>

\* process: the version loop of a package is over: w.Flush(), next package
ProcessPackageEnd(i) ==
    /\ ~aborted /\ upc[i] = "versions"
    /\ packageIdx[i] < Len(uInput[i])
    /\ verIdx[i] = Len(CurPackage(i).Versions)
    /\ file' = [file EXCEPT ![uPath[i]] = @ \o w[i]]
    /\ w' = [w EXCEPT ![i] = <<>>]
    /\ packageIdx' = [packageIdx EXCEPT ![i] = @ + 1]
    /\ verIdx' = [verIdx EXCEPT ![i] = 0]
    /\ UNCHANGED <<inVars, pc, aborted, li, wg, vpVars, upc, uInput, uPath, trace, last>>

\* process returns: defer file.Close(), then the goroutine's defer wg.Done()
ProcessReturn(i) ==
    /\ ~aborted /\ upc[i] = "versions"
    /\ packageIdx[i] = Len(uInput[i])
    /\ upc' = [upc EXCEPT ![i] = "done"]
    /\ wg' = wg - 1
    /\ UNCHANGED <<inVars, pc, aborted, li, vpVars, uInput, uPath, packageIdx, verIdx,
                   w, file, trace, last>>

--------------------------------------------------------------------------
(* The fan-out path: IngestFile / Ingest *)

FanNext ==
    \/ UnmarshalPanics
    \/ UnmarshalOk
    \/ NewCsvWriterPanics
    \/ NewCsvWriterOk
    \/ VersionPrinterLaunch
    \/ \E i \in Units : PrintSinglePackage(i)
    \/ \E i \in Units : PrintGoroutineDone(i)
    \/ VersionPrinterReturn
    \/ IngestLaunch
    \/ \E i \in Units : ProcessOpenFatal(i)
    \/ \E i \in Units : ProcessOpen(i)
    \/ \E i \in Units : ProcessVersion(i)
    \/ \E i \in Units : ProcessPackageEnd(i)
    \/ \E i \in Units : ProcessReturn(i)
    \/ IngestReturn

--------------------------------------------------------------------------
(* Dependency extraction on one decoded pair of maps *)

NameB == Str("b", 10000)
NameC == Str("c", 10001)
RangeLong == Str("x", 10001)

DepNames == {NameA, NameB, NameC}
DepValues == {StringValue(RangeA), StringValue(RangeLong), OtherValue}

\* decoded map[string]interface{} values with at most MaxDeps entries
AnyMaps ==
    UNION {[D -> DepValues] : D \in {E \in SUBSET DepNames : Cardinality(E) <= MaxDeps}}

\* the map is a map[string]string: every range is a JSON string
IsStringMap(m) == \A k \in DOMAIN m : m[k].kind = "string"

\* a map[string]interface{} of strings as the map[string]string it decodes to
AsStringMap(m) == [k \in DOMAIN m |-> m[k].s]

ExtractIdle ==
    /\ exDeps = EmptyMap
    /\ exDevDeps = EmptyMap
    /\ exPath = "none"
    /\ exOut = <<>>
    /\ exPanicked = FALSE

InitExtract ==
    /\ exDeps \in AnyMaps
    /\ exDevDeps \in AnyMaps
    /\ exPath = "none"
    /\ exOut = <<>>
    /\ exPanicked = FALSE

\* StreamDecode: the two loops over vd.Dependencies and vd.DevDependencies
ExtractInStream ==
    /\ exPath = "none"
    /\ IsStringMap(exDeps) /\ IsStringMap(exDevDeps)
    /\ \E o1 \in MapOrders(exDeps), o2 \in MapOrders(exDevDeps) :
        exOut' = StreamExtract(AsStringMap(exDeps), AsStringMap(exDevDeps), o1, o2)
    /\ exPath' = "stream"
    /\ UNCHANGED <<exInVars, exPanicked>>

\* process: the two loops over parsed.Dependencies and parsed.DevDependencies
ExtractInProcess ==
    /\ exPath = "none"
    /\ ~ExtractPanics(exDeps, exDevDeps)
    /\ \E o1 \in MapOrders(exDeps), o2 \in MapOrders(exDevDeps) :
        exOut' = ProcessExtract(exDeps, exDevDeps, o1, o2)
    /\ exPath' = "process"
    /\ UNCHANGED <<exInVars, exPanicked>>

\* process: a v.(string) of the two loops panics
ExtractInProcessPanics ==
    /\ exPath = "none"
    /\ ExtractPanics(exDeps, exDevDeps)
    /\ exPanicked' = TRUE
    /\ exPath' = "process"
    /\ UNCHANGED <<exInVars, exOut>>

ExtractNext ==
    \/ ExtractInStream
    \/ ExtractInProcess
    \/ ExtractInProcessPanics

--------------------------------------------------------------------------
(* StreamDecode *)

\* type VersionData
VersionData(deps, devDeps) == [Dependencies |-> deps, DevDependencies |-> devDeps]

\* type Doc
Doc(name, versions, times) == [Name |-> name, Versions |-> versions, Time |-> times]

\* an element of the input array: one dec.Decode(&e) rejects, or an Entry
BadElement == [ok |-> FALSE]
Entry(doc) == [ok |-> TRUE, Doc |-> doc]

\* the per-version dependency data of the input documents
VersionDatas ==
    {VersionData(EmptyMap, EmptyMap),
     VersionData(NameA :> RangeA @@ NameB :> RangeA, EmptyMap),
     VersionData(NameC :> RangeA, NameA :> RangeA)}

\* the version numbers of a streamed document
StreamNumbers == {1, 2}

\* the "versions" objects of the input documents
VersionMaps == UNION {[D -> VersionDatas] : D \in SUBSET StreamNumbers}

\* the "time" object for the versions D: every version, or no version at all
TimeMaps(D) == {[n \in D |-> PublishedAtOf(n)], [n \in {} |-> PublishedAtOf(n)]}

\* the decodable elements named name
Docs(name) ==
    UNION {{Doc(name, vm, tm) : tm \in TimeMaps(DOMAIN vm)} : vm \in VersionMaps}

\* the input arrays: at most MaxEntries elements, element k named k if it decodes
StreamInputs ==
    UNION {
        {d \in [1..n -> {BadElement} \cup UNION {{Entry(x) : x \in Docs(k)} : k \in 1..n}] :
            \A k \in 1..n : d[k].ok => d[k].Doc.Name = k} :
        n \in 0..MaxEntries}

StreamStart(shape, doc) ==
    /\ sShape = shape
    /\ sDoc = doc
    /\ sRun = 1
    /\ sPc = "open"
    /\ sIdx = 0
    /\ sBuf = <<>>
    /\ sOut = <<>>
    /\ sFirst = <<>>

StreamIdle == StreamStart("array", <<>>)

InitStream ==
    \E shape \in {"array", "unreadable", "unterminated"}, doc \in StreamInputs :
        StreamStart(shape, doc)

\* StreamDecode: os.OpenFile(outPath) fails, log.Fatal(err)
StreamOpenFatal ==
    /\ sPc = "open"
    /\ sPc' = "fatal"
    /\ UNCHANGED <<stInVars, sRun, sIdx, sBuf, sOut, sFirst>>

\* StreamDecode: dec.Token() cannot read the opening bracket, log.Fatal(err)
StreamTokenFatal ==
    /\ sPc = "open"
    /\ sShape = "unreadable"
    /\ sPc' = "fatal"
    /\ UNCHANGED <<stInVars, sRun, sIdx, sBuf, sOut, sFirst>>

\* StreamDecode: the files are open and the opening bracket is read
StreamOpen ==
    /\ sPc = "open"
    /\ sShape # "unreadable"
    /\ sPc' = "loop"
    /\ sIdx' = 0
    /\ sBuf' = <<>>
    /\ UNCHANGED <<stInVars, sRun, sOut, sFirst>>

\* a reader that logs the failing element and goes on with the next one
StreamDecodeSkip ==
    /\ sPc = "loop"
    /\ sIdx < Len(sDoc)
    /\ ~At(sDoc, sIdx).ok
    /\ sIdx' = sIdx + 1
    /\ UNCHANGED <<stInVars, sRun, sPc, sBuf, sOut, sFirst>>

\* StreamDecode: dec.Decode(&e) fails, log.Fatal(err)
StreamDecodeFatal ==
    /\ sPc = "loop"
    /\ sIdx < Len(sDoc)
    /\ ~At(sDoc, sIdx).ok
    /\ sPc' = "fatal"
    /\ UNCHANGED <<stInVars, sRun, sIdx, sBuf, sOut, sFirst>>

\* StreamDecode: t := time.Time(timeStamps[number]); a missing key reads the zero value
TimeStampOf(timeStamps, number) ==
    IF number \in DOMAIN timeStamps THEN timeStamps[number] ELSE Time(0, 0)

\* StreamDecode: the row of one version, its maps ranged over in the orders o1 and o2
StreamRow(doc, number, o1, o2) ==
    LET vd == doc.Versions[number]
        allDependencies == StreamExtract(vd.Dependencies, vd.DevDependencies, o1, o2)
    IN  WriteOneRow(VersionDependencies(doc.Name, number,
                                        TimeStampOf(doc.Time, number), allDependencies))

\* the orders in which the two maps of every version may be ranged over
DepOrders(doc) ==
    {f \in [DOMAIN doc.Versions ->
                UNION {MapOrders(doc.Versions[n].Dependencies) \X
                       MapOrders(doc.Versions[n].DevDependencies) : n \in DOMAIN doc.Versions}] :
        \A n \in DOMAIN doc.Versions :
            /\ f[n][1] \in MapOrders(doc.Versions[n].Dependencies)
            /\ f[n][2] \in MapOrders(doc.Versions[n].DevDependencies)}

\* an iteration that leaves its rows in the writer's buffer
StreamElementBuffered ==
    /\ sPc = "loop"
    /\ sIdx < Len(sDoc)
    /\ At(sDoc, sIdx).ok
    /\ LET doc == At(sDoc, sIdx).Doc
       IN  \E vo \in MapOrders(doc.Versions), f \in DepOrders(doc) :
               LET rows == [k \in 1..Len(vo) |-> StreamRow(doc, vo[k], f[vo[k]][1], f[vo[k]][2])]
               IN  /\ sBuf' = sBuf \o rows
                   /\ sOut' = sOut
    /\ sIdx' = sIdx + 1
    /\ UNCHANGED <<stInVars, sRun, sPc, sFirst>>

\* StreamDecode: one iteration of "for dec.More()": decode an element, write the row
\* of each of its versions, writer.Flush()
StreamElement ==
    /\ sPc = "loop"
    /\ sIdx < Len(sDoc)
    /\ At(sDoc, sIdx).ok
    /\ LET doc == At(sDoc, sIdx).Doc
       IN  \E vo \in MapOrders(doc.Versions), f \in DepOrders(doc) :
               LET rows == [k \in 1..Len(vo) |-> StreamRow(doc, vo[k], f[vo[k]][1], f[vo[k]][2])]
               IN  /\ sOut' = sOut \o sBuf \o rows
                   /\ sBuf' = <<>>
    /\ sIdx' = sIdx + 1
    /\ UNCHANGED <<stInVars, sRun, sPc, sFirst>>

\* StreamDecode: dec.More() is false and dec.Token() finds no closing bracket
StreamCloseFatal ==
    /\ sPc = "loop"
    /\ sIdx = Len(sDoc)
    /\ sShape = "unterminated"
    /\ sPc' = "fatal"
    /\ UNCHANGED <<stInVars, sRun, sIdx, sBuf, sOut, sFirst>>

\* StreamDecode returns: the closing bracket is read, defer outFile.Close()
StreamReturn ==
    /\ sPc = "loop"
    /\ sIdx = Len(sDoc)
    /\ sShape = "array"
    /\ sPc' = "done"
    /\ UNCHANGED <<stInVars, sRun, sIdx, sBuf, sOut, sFirst>>

\* StreamDecode is called again on the same inPath with an empty outPath
StreamRerun ==
    /\ sPc = "done"
    /\ sRun = 1
    /\ sRun' = 2
    /\ sFirst' = sOut
    /\ sOut' = <<>>
    /\ sBuf' = <<>>
    /\ sIdx' = 0
    /\ sPc' = "open"
    /\ UNCHANGED <<stInVars>>

StreamNext ==
    \/ StreamOpenFatal
    \/ StreamTokenFatal
    \/ StreamOpen
    \/ StreamDecodeFatal
    \/ StreamElement
    \/ StreamCloseFatal
    \/ StreamReturn

--------------------------------------------------------------------------
(* The timestamp codec: CreatedTime.UnmarshalJSON and the RFC3339Nano layout *)

\* the longest fraction of a second in an input text, in digits
MaxFracDigits == 10

\* the digits a fraction is written with
FracDigits == {0, 7}

\* the precision of a time.Time, in digits of a second
NanoDigits == 9

\* the zone offsets of the input texts, in seconds ("Z", "+01:00", "-05:30")
Offsets == {0, 3600, -19800}

\* a timestamp text: wall-clock seconds, fraction digits, zone offset; layout
\* "rfc3339" if time.Parse accepts the text
TimeText(layout, sec, frac, off) == [layout |-> layout, sec |-> sec, frac |-> frac, off |-> off]

\* a CreatedTime: the instant and the zone it is presented in
Zoned(t, off) == [time |-> t, off |-> off]

\* var date CreatedTime: the zero value
ZeroCreatedTime == Zoned(Time(0, 0), 0)

\* the nanoseconds of a fraction: digits past the ninth are dropped, a short
\* fraction is padded with zeros
RECURSIVE FracNanos(_, _)
FracNanos(ds, width) ==
    IF width = 0 THEN 0
    ELSE (IF ds = <<>> THEN 0 ELSE ds[1]) * (10 ^ (width - 1))
         + FracNanos(IF ds = <<>> THEN <<>> ELSE Tail(ds), width - 1)

\* time.Parse(time.RFC3339Nano, s) of an accepted text
ParseRFC3339Nano(text) ==
    Zoned(Time(text.sec - text.off, FracNanos(text.frac, NanoDigits)), text.off)

\* time.Time(ct).Format(time.RFC3339Nano): the wall clock of the zone
CreatedTimeString(ct) ==
    LET f == FormatRFC3339Nano(Time(ct.time.sec + ct.off, ct.time.nsec))
    IN  TimeText("rfc3339", f.sec, f.frac, ct.off)

\* the digit sequences of length at most n
RECURSIVE FracSeqs(_)
FracSeqs(n) ==
    IF n = 0 THEN {<<>>}
    ELSE FracSeqs(n - 1) \cup {Append(ds, d) : ds \in {x \in FracSeqs(n - 1) : Len(x) = n - 1}, d \in FracDigits}

\* the input texts
TimeTexts ==
    {TimeText(layout, sec, frac, off) :
        layout \in {"rfc3339", "other"}, sec \in {20000, 20001},
        frac \in FracSeqs(MaxFracDigits), off \in Offsets}

CodecStart(text) ==
    /\ cText = text
    /\ cStage = "start"
    /\ cT1 = ZeroCreatedTime
    /\ cEnc = TimeText("none", 0, <<>>, 0)
    /\ cT2 = ZeroCreatedTime

\* the codec not run
CodecIdle == CodecStart(TimeText("none", 0, <<>>, 0))

InitCodec == \E text \in TimeTexts : CodecStart(text)

\* CreatedTime.UnmarshalJSON: time.Parse fails, return err
CodecDecodeFails ==
    /\ cStage = "start"
    /\ cText.layout # "rfc3339"
    /\ cStage' = "error"
    /\ UNCHANGED <<cdInVars, cT1, cEnc, cT2>>

\* CreatedTime.UnmarshalJSON: *ct = CreatedTime(t)
CodecDecode ==
    /\ cStage = "start"
    /\ cText.layout = "rfc3339"
    /\ cT1' = ParseRFC3339Nano(cText)
    /\ cStage' = "decoded"
    /\ UNCHANGED <<cdInVars, cEnc, cT2>>

\* CreatedTime.String / date.Format(time.RFC3339Nano)
CodecEncode ==
    /\ cStage = "decoded"
    /\ cEnc' = CreatedTimeString(cT1)
    /\ cStage' = "encoded"
    /\ UNCHANGED <<cdInVars, cT1, cT2>>

\* CreatedTime.UnmarshalJSON on the encoded text
CodecDecodeAgain ==
    /\ cStage = "encoded"
    /\ cT2' = ParseRFC3339Nano(cEnc)
    /\ cStage' = "done"
    /\ UNCHANGED <<cdInVars, cT1, cEnc>>

CodecNext ==
    \/ CodecDecodeFails
    \/ CodecDecode
    \/ CodecEncode
    \/ CodecDecodeAgain

--------------------------------------------------------------------------
(* The JSON encoders: CreatedTime.MarshalJSON and Version.MarshalJSON *)

\* the MarshalJSON frames a goroutine's stack has room for
MaxStack == 16

\* the values encoded: publish timestamps (CreatedTime) and versions (Version)
MarshalValues ==
    {Time(0, 0)}
    \cup {PublishedAtOf(k) : k \in 1..MaxVersions}
    \cup {Version(k, PublishedAtOf(k)) : k \in 1..MaxVersions}

MarshalStart(value, at) ==
    /\ mValue = value
    /\ mPc = at
    /\ mDepth = 0

\* no encoder called
MarshalIdle == MarshalStart(Time(0, 0), "idle")

InitMarshal == \E value \in MarshalValues : MarshalStart(value, "idle")

\* a caller invokes value.MarshalJSON()
MarshalJSONCall ==
    /\ mPc = "idle"
    /\ mPc' = "MarshalJSON"
    /\ mDepth' = 1
    /\ UNCHANGED mjInVars

\* CreatedTime.MarshalJSON / Version.MarshalJSON: the body is "return
\* json.Marshal(ct)" / "return json.Marshal(v)", the receiver itself
MarshalJSONBody ==
    /\ mPc = "MarshalJSON"
    /\ mPc' = "json.Marshal"
    /\ UNCHANGED <<mjInVars, mDepth>>

\* json.Marshal: the value's type implements json.Marshaler, so the encoder calls
\* its MarshalJSON method: one more frame
JsonMarshalDispatch ==
    /\ mPc = "json.Marshal"
    /\ mDepth < MaxStack
    /\ mPc' = "MarshalJSON"
    /\ mDepth' = mDepth + 1
    /\ UNCHANGED mjInVars

\* the goroutine's stack is exhausted: the runtime ends the process
\* ("fatal error: stack overflow")
StackOverflow ==
    /\ mPc = "json.Marshal"
    /\ mDepth = MaxStack
    /\ mPc' = "overflow"
    /\ UNCHANGED <<mjInVars, mDepth>>

MarshalNext ==
    \/ MarshalJSONCall
    \/ MarshalJSONBody
    \/ JsonMarshalDispatch
    \/ StackOverflow

--------------------------------------------------------------------------
(* Specifications *)

\* IngestFile / Ingest: the fan-out path
Init == InitFan /\ ExtractIdle /\ StreamIdle /\ CodecIdle /\ MarshalIdle
Next == FanNext
Spec == Init /\ [][Next]_vars

\* the dependency extraction of both paths on every pair of maps
InitEx == FanIdle /\ InitExtract /\ StreamIdle /\ CodecIdle /\ MarshalIdle
NextEx == ExtractNext
SpecExtract == InitEx /\ [][NextEx]_vars

\* IngestFile / Ingest on a malformed bulk document
InitMal == InitMalformed /\ ExtractIdle /\ StreamIdle /\ CodecIdle /\ MarshalIdle
SpecMalformed == InitMal /\ [][Next]_vars

\* IngestFile / Ingest on one package with many versions
InitLong == InitLongPackage /\ ExtractIdle /\ StreamIdle /\ CodecIdle /\ MarshalIdle
SpecLong == InitLong /\ [][Next]_vars

\* the timestamp codec on every input text
InitCd == FanIdle /\ ExtractIdle /\ StreamIdle /\ InitCodec /\ MarshalIdle
NextCd == CodecNext
SpecCodec == InitCd /\ [][NextCd]_vars

\* the JSON encoders on every value
InitMj == FanIdle /\ ExtractIdle /\ StreamIdle /\ CodecIdle /\ InitMarshal
NextMj == MarshalNext
SpecMarshal == InitMj /\ [][NextMj]_vars

\* StreamDecode, run once
InitSt == FanIdle /\ ExtractIdle /\ InitStream /\ CodecIdle /\ MarshalIdle
NextSt == StreamNext
SpecStream == InitSt /\ [][NextSt]_vars

\* StreamDecode, run and then run again on the same input
NextRerun == StreamNext \/ StreamRerun
SpecRerun == InitSt /\ [][NextRerun]_vars

--------------------------------------------------------------------------
(* Properties of the fan-out path *)

\* the events of one kind in a unit's trace
EventsOf(i, op) == SelectSeq(trace[i], LAMBDA e : e.op = op)

\* the rows a unit has written, flushed or not
RowsOf(i) == IF uPath[i] = <<>> THEN <<>> ELSE file[uPath[i]] \o w[i]

RECURSIVE SumVersions(_)
SumVersions(a) == IF a = <<>> THEN 0 ELSE Len(Head(a).Versions) + SumVersions(Tail(a))

\* the number of Writes the printSinglePackage goroutines 0..n-1 have made
RECURSIVE WritesMade(_)
WritesMade(n) == IF n = 0 THEN 0 ELSE vidx[n - 1] + WritesMade(n - 1)

\* the bag holds every version row of the input once, and nothing else
HoldsAllVersionRows(rows) ==
    /\ BagCardinality(rows) = SumVersions(arr)
    /\ \A i \in DOMAIN arr : \A k \in DOMAIN arr[i].Versions :
        CopiesIn(VersionRow(arr[i].Name, arr[i].Versions[k]), rows) = 1

\* this step is a fetch of unit i
FetchStep(i) == Len(EventsOf(i, "fetch"))' = Len(EventsOf(i, "fetch")) + 1

\* this step writes a dependency row
RowStep == \E i \in Units : RowsOf(i)' # RowsOf(i)

\* C1: when ingestInternal returns, every one of the len(arr) units has returned,
\* has fetched every version of its package, and has no unflushed row: all the
\* rows it wrote are in its file.
C1_ReturnsAfterAllUnits ==
    pc = "done" =>
        \A i \in 0..(Len(arr) - 1) :
            /\ upc[i] = "done"
            /\ Len(EventsOf(i, "fetch")) = Len(At(arr, i).Versions)
            /\ w[i] = <<>>
            /\ Len(file[uPath[i]]) = Len(EventsOf(i, "row"))

C1_Witness ==
    /\ pc = "done"
    /\ Len(arr) = MaxPackages
    /\ \A i \in Units : Len(file[uPath[i]]) >= 2

\* C2: units are launched for the indices 0..len(arr)-1 only, unit i owns the
\* slice holding package i alone and fetches versions of package i only; when
\* ingestInternal returns all n units were launched, every package belongs to
\* exactly one unit and each of its versions was fetched exactly once.
C2_EachPackageOnce ==
    /\ \A i \in Units :
        upc[i] # "idle" =>
            /\ i < Len(arr)
            /\ uInput[i] = <<At(arr, i)>>
            /\ \A k \in DOMAIN trace[i] : trace[i][k].pkg = At(arr, i).Name
    /\ pc = "done" =>
        /\ {i \in Units : upc[i] # "idle"} = 0..(Len(arr) - 1)
        /\ \A j \in 0..(Len(arr) - 1) :
            /\ Cardinality({i \in Units :
                    \E k \in DOMAIN uInput[i] : uInput[i][k].Name = At(arr, j).Name}) = 1
            /\ [k \in 1..Len(EventsOf(j, "fetch")) |-> EventsOf(j, "fetch")[k].ver]
                   = [k \in 1..Len(At(arr, j).Versions) |-> At(arr, j).Versions[k].Number]

C2_Witness ==
    /\ pc = "done"
    /\ Len(arr) = MaxPackages
    /\ \A i \in Units : Len(EventsOf(i, "fetch")) = MaxVersions

\* C3: once any unit is launched or has fetched, every printSinglePackage
\* goroutine has written all the rows of its package, the shared writer is closed,
\* and the version file holds all of them: as many rows as the input has versions.
C3_VersionRowsBeforeFetch ==
    (\E i \in Units : upc[i] # "idle" \/ trace[i] # <<>>) =>
        /\ \A i \in 0..(Len(arr) - 1) : vpc[i] = "done" /\ vidx[i] = Len(At(arr, i).Versions)
        /\ csvClosed
        /\ versionFile = csvRows
        /\ BagCardinality(versionFile) = SumVersions(arr)

C3_Witness ==
    /\ \E i \in Units : trace[i] # <<>>
    /\ SumVersions(arr) >= 3
    /\ BagCardinality(versionFile) >= 3

\* C4: under every interleaving the shared writer holds one row per Write made;
\* once versionPrinter has returned the version file holds as many rows as the
\* input has versions, no row twice, and (checked as versionPrinter returns and
\* as ingestInternal returns) exactly the rows of the input's versions.
C4_VersionRowCount ==
    /\ BagCardinality(csvRows) = WritesMade(Len(arr))
    /\ pc \in {"launch", "done"} =>
        /\ BagCardinality(versionFile) = SumVersions(arr)
        /\ \A r \in DOMAIN versionFile : versionFile[r] = 1
    /\ ((pc = "launch" /\ li = 0) \/ pc = "done") => HoldsAllVersionRows(versionFile)

C4_Witness ==
    /\ pc = "launch"
    /\ Len(arr) = MaxPackages
    /\ BagCardinality(versionFile) = MaxPackages * MaxVersions

\* C5 (as claimed): a fetch answered 404, whatever its body, writes no row, does
\* not abort, and moves the unit on to its next version.
C5_NotFoundSkips ==
    [][\A i \in Units :
        (FetchStep(i) /\ last'.StatusCode = 404) =>
            /\ ~RowStep
            /\ ~aborted'
            /\ verIdx'[i] = verIdx[i] + 1]_vars

\* C6 (as claimed): a fetch answered with a status >= 400 other than 404,
\* whatever its body, aborts the run and writes no row.
C6_RejectionAborts ==
    [][\A i \in Units :
        (FetchStep(i) /\ last'.StatusCode >= 400 /\ last'.StatusCode # 404) =>
            /\ ~RowStep
            /\ aborted']_vars

\* the place of an event in a unit's input order: versions in input order, the
\* fetch of a version before its row
EventRank(i, e) ==
    LET vs == At(arr, i).Versions
        pos == CHOOSE k \in DOMAIN vs : vs[k].Number = e.ver
    IN  2 * pos + (IF e.op = "row" THEN 1 ELSE 0)

\* C7: in every unit the fetches and rows follow the input order of the versions:
\* each event of the trace comes later in (version position, fetch before row)
\* than the event before it, and so does each row of the unit's output.
C7_InputOrder ==
    \A i \in Units :
        /\ \A a \in 1..(Len(trace[i]) - 1) :
            EventRank(i, trace[i][a]) < EventRank(i, trace[i][a + 1])
        /\ LET rows == RowsOf(i)
           IN  /\ \A a \in 1..(Len(rows) - 1) : rows[a][2] < rows[a + 1][2]
               /\ Len(rows) = Len(EventsOf(i, "row"))

C7_Witness ==
    \E i \in Units :
        /\ Len(EventsOf(i, "row")) >= 2
        /\ Len(RowsOf(i)) >= 2

--------------------------------------------------------------------------
(* Properties of the dependency extraction *)

\* the entries of a map that pass the size guard
Kept(m) == {k \in DOMAIN m : ~tooLong(k, m[k].s)}

\* C8 (as claimed): on the streaming path and on the live-fetch path alike, the
\* extraction of maps of strings yields exactly the entries whose name and range
\* are at most limit long: all of them when none is oversized, and otherwise
\* every entry but the oversized ones.
C8_SizeGuardEveryPath ==
    (exPath \in {"stream", "process"} /\ ~exPanicked) =>
        /\ Len(exOut) = Cardinality(Kept(exDeps)) + Cardinality(Kept(exDevDeps))
        /\ {exOut[k] : k \in DOMAIN exOut}
               = {Dependency(k, exDeps[k].s) : k \in Kept(exDeps)}
                 \cup {Dependency(k, exDevDeps[k].s) : k \in Kept(exDevDeps)}

\* C9 (as claimed): extraction never fails, whatever the decoded maps hold.
C9_ExtractionTotal == exPath # "none" => ~exPanicked

--------------------------------------------------------------------------
(* Properties of the streaming path *)

\* C10 (as claimed): a second run of StreamDecode on the same input with an empty
\* output file leaves the same rows, in the same order, as the first run did.
C10_RerunIdentical == (sRun = 2 /\ sPc = "done") => sOut = sFirst

--------------------------------------------------------------------------
(* Properties of the bulk document reader *)

\* C11 (as claimed): a malformed bulk document leaves no partial result: no
\* version-summary row is written, no unit is launched and no dependency row is
\* written.
C11_MalformedNoPartialResult ==
    inputDefect # "none" =>
        /\ BagCardinality(csvRows) = 0
        /\ \A i \in Units : upc[i] = "idle" /\ w[i] = <<>>
        /\ \A q \in Paths : file[q] = <<>>

--------------------------------------------------------------------------
(* Properties of the streaming reader *)

\* the 0-based positions of the elements of the input that do not decode
BadPositions == {k \in 0..(Len(sDoc) - 1) : ~At(sDoc, k).ok}

\* the rows handed to the streaming writer so far, flushed or not
StreamWritten == sOut \o sBuf

\* the number of versions of the first n elements of the input
RECURSIVE VersionsUpTo(_)
VersionsUpTo(n) ==
    IF n = 0 THEN 0
    ELSE VersionsUpTo(n - 1) +
         (IF At(sDoc, n - 1).ok THEN Cardinality(DOMAIN At(sDoc, n - 1).Doc.Versions) ELSE 0)

\* C12: a decode failure of element k is fatal: the reader never goes past an
\* element that does not decode, and no row of element k or of a later element
\* is ever written (element k of the input is named k + 1).
C12_DecodeFailureFatal ==
    \A k \in BadPositions :
        /\ sIdx <= k
        /\ \A r \in DOMAIN StreamWritten : StreamWritten[r][1] <= k

\* C12 witness: the run died on element 1 after the rows of element 0 were written
C12_Witness ==
    /\ sPc = "fatal"
    /\ sIdx = 1
    /\ sIdx \in BadPositions
    /\ sOut # <<>>

\* C13: the sink is flushed once per package: whenever the decoding of the next
\* element begins, and at the end of the run, nothing is left in the writer's
\* buffer, the sink holds one row per version of every element decoded so far,
\* and the rows of an element come before those of every later element.
C13_FlushedPerPackage ==
    (sPc \in {"loop", "done"}) =>
        /\ sBuf = <<>>
        /\ Len(sOut) = VersionsUpTo(sIdx)
        /\ \A r \in 1..(Len(sOut) - 1) : sOut[r][1] <= sOut[r + 1][1]

\* C13 witness: a finished run over two packages that both have versions
C13_Witness ==
    /\ sPc = "done"
    /\ sIdx = 2
    /\ \E r, q \in DOMAIN sOut : sOut[r][1] = 1 /\ sOut[q][1] = 2

\* C14 (as claimed): no row of a version that has no entry in the document's
\* "time" object carries the default (zero) timestamp.
C14_NoDefaultTimestamp ==
    \A r \in DOMAIN StreamWritten :
        LET row == StreamWritten[r]
            doc == sDoc[row[1]].Doc
        IN  (row[2] \notin DOMAIN doc.Time) => row[3] # FormatRFC3339Nano(Time(0, 0))

--------------------------------------------------------------------------
(* Properties of the timestamp codec *)

\* C15: the timestamp round trip: a timestamp decoded by CreatedTime.UnmarshalJSON,
\* encoded in the RFC3339Nano layout and decoded again is the identical point in
\* time, to the nanosecond.
C15_TimestampRoundTrip ==
    (cStage = "done") => cT2.time = cT1.time

\* C15 witness: a round trip of a time in a zone other than UTC whose text had more
\* digits than a nanosecond and whose encoding differs from that text
C15_Witness ==
    /\ cStage = "done"
    /\ Len(cText.frac) > NanoDigits
    /\ cText.frac[Len(cText.frac)] # 0
    /\ cT1.time.nsec > 0
    /\ cText.off # 0
    /\ cEnc.frac # cText.frac
    /\ Len(cEnc.frac) < NanoDigits

--------------------------------------------------------------------------
(* Properties of the output destinations and of the shared writer *)

\* C16: per-package output destinations are exclusively owned: two distinct
\* launched units never have the same destination, and every row in a unit's
\* destination or buffer is a row of that unit's own package.
C16_ExclusiveDestinations ==
    \A i, j \in Units :
        (upc[i] # "idle" /\ upc[j] # "idle") =>
            /\ (i # j => uPath[i] # uPath[j])
            /\ \A r \in DOMAIN RowsOf(i) : RowsOf(i)[r][1] = At(arr, i).Name

\* C16 witness: two units are in their version loops at the same time and each
\* has flushed rows to its destination
C16_Witness ==
    \E i, j \in Units :
        /\ i # j
        /\ upc[i] = "versions" /\ upc[j] = "versions"
        /\ file[uPath[i]] # <<>> /\ file[uPath[j]] # <<>>

\* C19: the shared version-summary writer is closed only after every
\* printSinglePackage goroutine has finished, so no Write follows the Close, and
\* versionPrinter has not returned while a goroutine is running.
C19_CloseAfterGoroutines ==
    (csvClosed \/ pc \in {"launch", "done"}) =>
        \A i \in Units :
            /\ vpc[i] # "run"
            /\ i < Len(arr) => (vpc[i] = "done" /\ vidx[i] = Len(At(arr, i).Versions))

\* C19 witness: the writer was closed after the goroutines of all packages wrote
\* their rows, and the units were not launched yet
C19_Witness ==
    /\ csvClosed
    /\ pc = "launch" /\ li = 0
    /\ Len(arr) = MaxPackages
    /\ \A i \in Units : vpc[i] = "done" /\ vidx[i] = MaxVersions

--------------------------------------------------------------------------
(* Properties of a unit's buffered writer *)

\* C17 (as claimed): the rows a unit has written and not yet flushed never exceed
\* FlushEvery, whatever the sequence of per-version outcomes.
C17_BufferedAtMostTen ==
    \A i \in Units : Len(w[i]) <= FlushEvery

\* C18: a unit flushes unconditionally at its end: once a unit has completed,
\* whatever the mix of resolved and not-found versions, nothing is left in its
\* writer and its destination holds every row it wrote.
C18_FlushedAtEnd ==
    \A i \in Units :
        (upc[i] = "done") =>
            /\ w[i] = <<>>
            /\ Len(file[uPath[i]]) = Len(EventsOf(i, "row"))

\* C18 witness: a unit completed whose last version was not found while the row
\* of the version before it was still in the buffer
C18_Witness ==
    \E i \in Units :
        /\ upc[i] = "done"
        /\ Len(trace[i]) >= 3
        /\ trace[i][Len(trace[i])].op = "fetch"
        /\ trace[i][Len(trace[i]) - 1].op = "row"
        /\ trace[i][Len(trace[i]) - 1].ver = LongVersions - 1
        /\ trace[i][Len(trace[i])].ver = LongVersions
        /\ Len(file[uPath[i]]) >= 2

--------------------------------------------------------------------------
(* Properties of the JSON encoders *)

\* C20 (as claimed): the JSON encoders terminate: no call of MarshalJSON on a
\* CreatedTime or a Version ends in the exhaustion of the stack instead of a
\* return.
C20_EncodersReturn == mPc # "overflow"

====
